---- MODULE Spec2Model ----
(***************************************************************************)
(* Tournament tree (segment tree) for Range Maximum Query, ttree.ll.       *)
(* The backing array is the heap block of 5*n zeroed int64 cells that main *)
(* allocates; build and range_maximum are the recursive procedures of the  *)
(* source, evaluated here as recursive operators that also report which    *)
(* nodes they visited and which slots they read or wrote.  A call whose    *)
(* recursion exceeds StackDepth frames has exhausted the machine stack:    *)
(* it does not return and the process is gone.                             *)
(***************************************************************************)
EXTENDS Integers, Sequences, FiniteSets, TLC

\* ---- bounds of the model ----
MaxN == 3          \* array lengths 1..MaxN
ValBound == 1      \* array values -ValBound..ValBound
StackDepth == 6    \* frames available to one recursive call chain
WordBits == 16     \* width of the machine word (i64 in the source, scaled)
Pad == 1           \* how far outside 0..n-1 callers' indices may lie
ArithPad == 3      \* how many words next to the least, zero and greatest are tried
WideN == 8         \* array lengths 1..WideN where only the slots touched matter

Values == (0 - ValBound)..ValBound

VARIABLES n, a, cur, i, pc, upd, last, todo, bp, qp
vars == <<n, a, cur, i, pc, upd, last, todo, bp, qp>>
\* todo: the positions a build-in-any-order session has still to build
\* bp, qp: a build call and a range_maximum call in progress, step by step
procs == <<todo, bp, qp>>

\* ---- machine arithmetic ----
Pow2(k) == 2^k
\* the signed value of a WordBits-wide bit pattern
Wrap(x) == ((x + Pow2(WordBits - 1)) % Pow2(WordBits)) - Pow2(WordBits - 1)
\* lshr by one: shift of the unsigned bit pattern
\* ashr by one: the shift that keeps the sign
ashr1(x) == x \div 2
lshr1(x) == (x % Pow2(WordBits)) \div 2

\* ---- array helpers ----
\* ll_int64_array_idx does no bounds check: an access outside the block is
\* undefined.  Such an access is reported in the reads/writes of the call, and
\* the cell is taken to lie outside the array (a store leaves the array as it
\* is, a load yields 0).  With the block of new_tree no call that returns
\* makes such an access (C16), so the value chosen here is never observed.
array_get(arr, idx) == IF idx \in DOMAIN arr THEN arr[idx] ELSE 0
array_set(arr, idx, v) == IF idx \in DOMAIN arr THEN [arr EXCEPT ![idx] = v] ELSE arr

\* ---- index arithmetic ----
left_child(p) == Wrap(Wrap(2 * p) + 1)
right_child(p) == Wrap(Wrap(2 * p) + 2)
\* the split point taken at the upper end of the interval
left_until_upper(l, r) == r
left_until(l, r) == Wrap(l + lshr1(Wrap(r - l)))
right_from(l, r) == Wrap(left_until(l, r) + 1)
\* max with the branch targets exchanged
max_exchanged(x, y) == IF x < y THEN x ELSE y
max(x, y) == IF x < y THEN y ELSE x

\* ---- build ----
\* %3 = or (idx < l) (idx > r) : the target is outside the node's interval
\* the pruning test with one of its two comparisons dropped
build_outside_upper_only(l, r, idx) == idx > r
build_outside_lower_only(l, r, idx) == idx < l
build_outside(l, r, idx) == idx < l \/ idx > r

RECURSIVE build(_, _, _, _, _, _, _)
build(arr, p, l, r, idx, val, d) ==
  IF d > StackDepth
  THEN [ok |-> FALSE, a |-> arr, writes |-> {}, reads |-> {}, nodes |-> {<<p, l, r>>}]
  ELSE IF build_outside(l, r, idx)
  THEN [ok |-> TRUE, a |-> arr, writes |-> {}, reads |-> {}, nodes |-> {<<p, l, r>>}]
  ELSE IF l = r
  THEN [ok |-> TRUE, a |-> array_set(arr, p, val), writes |-> {p}, reads |-> {},
        nodes |-> {<<p, l, r>>}]
  ELSE
    LET lch == left_child(p)
        rch == right_child(p)
        lres == build(arr, lch, l, left_until(l, r), idx, val, d + 1)
    IN IF ~lres.ok
       THEN [lres EXCEPT !.nodes = @ \cup {<<p, l, r>>}]
       ELSE
         LET rres == build(lres.a, rch, right_from(l, r), r, idx, val, d + 1)
         IN IF ~rres.ok
            THEN [rres EXCEPT !.nodes = @ \cup lres.nodes \cup {<<p, l, r>>},
                              !.writes = @ \cup lres.writes,
                              !.reads = @ \cup lres.reads]
            ELSE
              LET m == max(array_get(rres.a, lch), array_get(rres.a, rch))
              IN [ok |-> TRUE,
                  a |-> array_set(rres.a, p, m),
                  writes |-> lres.writes \cup rres.writes \cup {p},
                  reads |-> lres.reads \cup rres.reads \cup {lch, rch},
                  nodes |-> lres.nodes \cup rres.nodes \cup {<<p, l, r>>}]

\* ---- range_maximum ----
\* br i1 %1 : the branch to exit_default tests %1 (L > r) alone
rangemax_exit_default(l, r, L, R) == L > r
\* %6 = and (r <= R) (l >= L)
\* the containment test with the comparison of the lower ends dropped
rangemax_total_upper_only(l, r, L, R) == r <= R
rangemax_total(l, r, L, R) == r <= R /\ l >= L

\* one activation of range_maximum: the node, the block that ended it
\* ("exit_default", "rangemax_basecase", "rangemax_else", or "overflow" when
\* no frame was left), whether it returned, and the value returned
Call(p, l, r, kind, ok, ret) ==
  [p |-> p, l |-> l, r |-> r, kind |-> kind, ok |-> ok, ret |-> ret]

RECURSIVE range_maximum(_, _, _, _, _, _, _)
range_maximum(arr, p, l, r, L, R, d) ==
  IF d > StackDepth
  THEN [ok |-> FALSE, ret |-> 0, reads |-> {}, nodes |-> {<<p, l, r>>},
        calls |-> {Call(p, l, r, "overflow", FALSE, 0)}]
  ELSE IF rangemax_exit_default(l, r, L, R)
  THEN [ok |-> TRUE, ret |-> 0, reads |-> {}, nodes |-> {<<p, l, r>>},
        calls |-> {Call(p, l, r, "exit_default", TRUE, 0)}]
  ELSE IF rangemax_total(l, r, L, R)
  THEN [ok |-> TRUE, ret |-> array_get(arr, p), reads |-> {p}, nodes |-> {<<p, l, r>>},
        calls |-> {Call(p, l, r, "rangemax_basecase", TRUE, array_get(arr, p))}]
  ELSE
    LET lres == range_maximum(arr, left_child(p), l, left_until(l, r), L, R, d + 1)
    IN IF ~lres.ok
       THEN [lres EXCEPT !.nodes = @ \cup {<<p, l, r>>},
                         !.calls = @ \cup {Call(p, l, r, "rangemax_else", FALSE, 0)}]
       ELSE
         LET rres == range_maximum(arr, right_child(p), right_from(l, r), r, L, R, d + 1)
         IN IF ~rres.ok
            THEN [rres EXCEPT !.nodes = @ \cup lres.nodes \cup {<<p, l, r>>},
                              !.reads = @ \cup lres.reads,
                              !.calls = @ \cup lres.calls
                                          \cup {Call(p, l, r, "rangemax_else", FALSE, 0)}]
            ELSE
              LET m == max(lres.ret, rres.ret)
              IN [ok |-> TRUE,
                  ret |-> m,
                  reads |-> lres.reads \cup rres.reads,
                  nodes |-> lres.nodes \cup rres.nodes \cup {<<p, l, r>>},
                  calls |-> lres.calls \cup rres.calls
                              \cup {Call(p, l, r, "rangemax_else", TRUE, m)}]

\* ---- the caller ----
\* %_sz1 = mul i64 %n, 5 ; ll_malloc memsets the block to 0
\* a block of len cells instead of 5 * len
new_tree_len(len) == [s \in 0..(len - 1) |-> 0]
new_tree(len) == [s \in 0..(5 * len - 1) |-> 0]

NoOp == [op |-> "none", x |-> 0, y |-> 0, ok |-> TRUE, ret |-> 0,
         reads |-> {}, writes |-> {}, nodes |-> {}, calls |-> {}]
NoUpd == [idx |-> 0, val |-> 0, tree |-> <<>>, arr |-> <<>>]
\* no call in progress
Idle == [stack |-> <<>>, done |-> TRUE, ok |-> TRUE, ret |-> 0]

\* main, up to the loop: the block is allocated and zeroed, i = 0
Init ==
  /\ n \in 1..MaxN
  /\ a = new_tree(n)
  /\ cur = [k \in 0..(n - 1) |-> 0]
  /\ i = 0
  /\ pc = "loop"
  /\ upd = NoUpd
  /\ last = NoOp
  /\ todo = {}
  /\ bp = Idle
  /\ qp = Idle

\* one build call at the root (0, 0, n-1); cur follows the value last written
\* for each position of the source array
CallBuild(idx, v) ==
  LET res == build(a, 0, 0, n - 1, idx, v, 0)
  IN /\ a' = res.a
     /\ cur' = IF idx \in 0..(n - 1) THEN [cur EXCEPT ![idx] = v] ELSE cur
     /\ last' = [op |-> "build", x |-> idx, y |-> v, ok |-> res.ok, ret |-> 0,
                 reads |-> res.reads, writes |-> res.writes, nodes |-> res.nodes,
                 calls |-> {}]

\* one range_maximum call at the root (0, 0, n-1), then the result is printed
\* and the array freed; a call that exhausts the stack does not return
CallQuery(L, R) ==
  LET res == range_maximum(a, 0, 0, n - 1, L, R, 0)
  IN /\ last' = [op |-> "query", x |-> L, y |-> R, ok |-> res.ok, ret |-> res.ret,
                 reads |-> res.reads, writes |-> {}, nodes |-> res.nodes,
                 calls |-> res.calls]
     /\ pc' = IF res.ok THEN "done" ELSE "crashed"

\* loop_body of main: build(a, 0, 0, n-1, i, a_i); i := i + 1
DriverBuild ==
  /\ pc = "loop"
  /\ i # n
  /\ \E v \in Values : CallBuild(i, v)
  /\ i' = i + 1
  /\ pc' = IF i + 1 = n THEN "built" ELSE "loop"
  /\ UNCHANGED <<n, upd>>
  /\ UNCHANGED procs

\* loop_end of main: the query on the freshly built tree; the bounds may lie
\* up to Pad outside 0..n-1
Query ==
  /\ pc = "built"
  /\ \E L \in (0 - Pad)..(n - 1 + Pad), R \in (0 - Pad)..(n - 1 + Pad) :
       L <= R /\ CallQuery(L, R)
  /\ UNCHANGED <<n, a, cur, i, upd>>
  /\ UNCHANGED procs

\* a further build call at the root once the tree is built: a point update
\* of a position of the array
Update ==
  /\ pc = "built"
  /\ \E idx \in 0..(n - 1), v \in Values :
       /\ CallBuild(idx, v)
       /\ upd' = [idx |-> idx, val |-> v, tree |-> a, arr |-> cur]
  /\ pc' = "updated"
  /\ UNCHANGED <<n, i>>
  /\ UNCHANGED procs

\* the query on the updated tree, over a range of the array
QueryUpdated ==
  /\ pc = "updated"
  /\ \E L \in 0..(n - 1), R \in 0..(n - 1) : L <= R /\ CallQuery(L, R)
  /\ UNCHANGED <<n, a, cur, i, upd>>
  /\ UNCHANGED procs

Next == DriverBuild \/ Query \/ Update \/ QueryUpdated

Spec == Init /\ [][Next]_vars

\* build calls at the root in any order, from the zeroed block
InitAny ==
  /\ n \in 1..MaxN
  /\ a = new_tree(n)
  /\ cur = [k \in 0..(n - 1) |-> 0]
  /\ i = 0
  /\ pc = "free"
  /\ upd = NoUpd
  /\ last = NoOp
  /\ todo = {}
  /\ bp = Idle
  /\ qp = Idle

AnyBuild ==
  /\ pc = "free"
  /\ \E idx \in (0 - Pad)..(n - 1 + Pad), v \in Values : CallBuild(idx, v)
  /\ UNCHANGED <<n, i, pc, upd>>
  /\ UNCHANGED procs

NextAny == AnyBuild

SpecAny == InitAny /\ [][NextAny]_vars

\* build calls at the root in any order and the full-range query, for longer
\* arrays: every value written is 1, the slots touched do not depend on it
InitWide ==
  /\ n \in 1..WideN
  /\ a = new_tree(n)
  /\ cur = [k \in 0..(n - 1) |-> 0]
  /\ i = 0
  /\ pc = "wide"
  /\ upd = NoUpd
  /\ last = NoOp
  /\ todo = {}
  /\ bp = Idle
  /\ qp = Idle

WideBuild ==
  /\ pc = "wide"
  /\ \E idx \in 0..(n - 1) : CallBuild(idx, 1)
  /\ UNCHANGED <<n, i, pc, upd>>
  /\ UNCHANGED procs

WideQuery ==
  /\ pc = "wide"
  /\ CallQuery(0, n - 1)
  /\ UNCHANGED <<n, a, cur, i, upd>>
  /\ UNCHANGED procs

NextWide == WideBuild \/ WideQuery

SpecWide == InitWide /\ [][NextWide]_vars

\* the index arithmetic on its own: left_until and right_from applied to
\* words l <= r near the least word, zero and the greatest word
MinInt == 0 - Pow2(WordBits - 1)
MaxInt == Pow2(WordBits - 1) - 1
EdgeInts ==
  (MinInt..(MinInt + ArithPad)) \cup ((0 - ArithPad)..ArithPad)
    \cup ((MaxInt - ArithPad)..MaxInt)

InitArith ==
  /\ n = 1
  /\ a = new_tree(1)
  /\ cur = [k \in 0..0 |-> 0]
  /\ i = 0
  /\ pc = "arith"
  /\ upd = NoUpd
  /\ last = NoOp
  /\ todo = {}
  /\ bp = Idle
  /\ qp = Idle

ArithResult(name, l, r, v) ==
  [op |-> name, x |-> l, y |-> r, ok |-> TRUE, ret |-> v,
   reads |-> {}, writes |-> {}, nodes |-> {}, calls |-> {}]

CallLeftUntil ==
  /\ pc = "arith"
  /\ \E l \in EdgeInts, r \in EdgeInts :
       l <= r /\ last' = ArithResult("left_until", l, r, left_until(l, r))
  /\ UNCHANGED <<n, a, cur, i, pc, upd>>
  /\ UNCHANGED procs

CallRightFrom ==
  /\ pc = "arith"
  /\ \E l \in EdgeInts, r \in EdgeInts :
       l <= r /\ last' = ArithResult("right_from", l, r, right_from(l, r))
  /\ UNCHANGED <<n, a, cur, i, pc, upd>>
  /\ UNCHANGED procs

NextArith == CallLeftUntil \/ CallRightFrom

SpecArith == InitArith /\ [][NextArith]_vars

\* the build loop of main run on the values arr: the array after the first k
\* iterations
RECURSIVE BuildUpTo(_, _)
BuildUpTo(arr, k) ==
  IF k = 0 THEN new_tree(n)
  ELSE build(BuildUpTo(arr, k - 1), 0, 0, n - 1, k - 1, arr[k - 1], 0).a

\* one build call per position of a given array, in any order, from the
\* zeroed block; upd.arr holds the values to build
InitPerm ==
  /\ n \in 1..MaxN
  /\ a = new_tree(n)
  /\ cur = [k \in 0..(n - 1) |-> 0]
  /\ i = 0
  /\ pc = "perm"
  /\ \E arr \in [0..(n - 1) -> Values] : upd = [NoUpd EXCEPT !.arr = arr]
  /\ last = NoOp
  /\ todo = 0..(n - 1)
  /\ bp = Idle
  /\ qp = Idle

PermBuild ==
  /\ pc = "perm"
  /\ \E idx \in todo :
       /\ CallBuild(idx, upd.arr[idx])
       /\ todo' = todo \ {idx}
  /\ UNCHANGED <<n, i, pc, upd, bp, qp>>

NextPerm == PermBuild

SpecPerm == InitPerm /\ [][NextPerm]_vars

\* ---- build and range_maximum one step at a time ----
\* A call in progress is its stack of activations.  A step runs the top
\* activation up to and including its next load or store of a slot, or up to
\* its next call or return.
RaceValues == {0, 1, 2}

BFrame(p, l, r, idx, val) ==
  [p |-> p, l |-> l, r |-> r, idx |-> idx, val |-> val, at |-> "entry", lv |-> 0, rv |-> 0]
QFrame(p, l, r, L, R) ==
  [p |-> p, l |-> l, r |-> r, L |-> L, R |-> R, at |-> "entry", lres |-> 0]

Top(stk) == stk[Len(stk)]
Pop(stk) == SubSeq(stk, 1, Len(stk) - 1)
SetTop(stk, f) == [stk EXCEPT ![Len(stk)] = f]

\* build: the callee has returned (ret i64 0); the caller goes on after the
\* call on the left child (line 157) or on the right child (line 158)
BReturn(proc, stk) ==
  IF stk = <<>>
  THEN [proc EXCEPT !.stack = <<>>, !.done = TRUE]
  ELSE LET f == Top(stk)
       IN IF f.at = "in_left"
          THEN [proc EXCEPT !.stack =
                  Append(SetTop(stk, [f EXCEPT !.at = "in_right"]),
                         BFrame(right_child(f.p), right_from(f.l, f.r), f.r, f.idx, f.val))]
          ELSE [proc EXCEPT !.stack = SetTop(stk, [f EXCEPT !.at = "get_l"])]

\* one step of the build call in progress; st = [a, cur, bp, qp]
BStep(st) ==
  LET stk == st.bp.stack
      f == Top(stk)
  IN IF f.at = "entry"
     THEN IF Len(stk) - 1 > StackDepth
          THEN [st EXCEPT !.bp = [st.bp EXCEPT !.done = TRUE, !.ok = FALSE]]
          ELSE IF build_outside(f.l, f.r, f.idx)
          THEN [st EXCEPT !.bp = BReturn(st.bp, Pop(stk))]
          ELSE IF f.l = f.r
          THEN [st EXCEPT !.a = array_set(st.a, f.p, f.val),
                          !.cur = [st.cur EXCEPT ![f.l] = f.val],
                          !.bp = BReturn(st.bp, Pop(stk))]
          ELSE [st EXCEPT !.bp.stack =
                  Append(SetTop(stk, [f EXCEPT !.at = "in_left"]),
                         BFrame(left_child(f.p), f.l, left_until(f.l, f.r), f.idx, f.val))]
     ELSE IF f.at = "get_l"
     THEN [st EXCEPT !.bp.stack =
             SetTop(stk, [f EXCEPT !.at = "get_r", !.lv = array_get(st.a, left_child(f.p))])]
     ELSE IF f.at = "get_r"
     THEN [st EXCEPT !.bp.stack =
             SetTop(stk, [f EXCEPT !.at = "set", !.rv = array_get(st.a, right_child(f.p))])]
     ELSE [st EXCEPT !.a = array_set(st.a, f.p, max(f.lv, f.rv)),
                     !.bp = BReturn(st.bp, Pop(stk))]

\* range_maximum: the callee has returned v; the caller goes on after the call
\* on the left child (line 189) or returns the max of the two (lines 190-192)
RECURSIVE QReturn(_, _, _)
QReturn(proc, stk, v) ==
  IF stk = <<>>
  THEN [proc EXCEPT !.stack = <<>>, !.done = TRUE, !.ret = v]
  ELSE LET f == Top(stk)
       IN IF f.at = "in_left"
          THEN [proc EXCEPT !.stack =
                  Append(SetTop(stk, [f EXCEPT !.at = "in_right", !.lres = v]),
                         QFrame(right_child(f.p), right_from(f.l, f.r), f.r, f.L, f.R))]
          ELSE QReturn(proc, Pop(stk), max(f.lres, v))

\* one step of the range_maximum call in progress
QStep(st) ==
  LET stk == st.qp.stack
      f == Top(stk)
  IN IF Len(stk) - 1 > StackDepth
     THEN [st EXCEPT !.qp = [st.qp EXCEPT !.done = TRUE, !.ok = FALSE]]
     ELSE IF rangemax_exit_default(f.l, f.r, f.L, f.R)
     THEN [st EXCEPT !.qp = QReturn(st.qp, Pop(stk), 0)]
     ELSE IF rangemax_total(f.l, f.r, f.L, f.R)
     THEN [st EXCEPT !.qp = QReturn(st.qp, Pop(stk), array_get(st.a, f.p))]
     ELSE [st EXCEPT !.qp.stack =
             Append(SetTop(stk, [f EXCEPT !.at = "in_left"]),
                    QFrame(left_child(f.p), f.l, left_until(f.l, f.r), f.L, f.R))]

Here == [a |-> a, cur |-> cur, bp |-> bp, qp |-> qp]

\* a tree built by the loop of main, then one build call and one
\* range_maximum call at the root started together on it; upd holds the
\* build's arguments and the tree as it was before the two calls
InitRace ==
  /\ n \in 1..MaxN
  /\ i = n
  /\ pc = "race"
  /\ last = NoOp
  /\ todo = {}
  /\ \E arr \in [0..(n - 1) -> RaceValues], idx \in 0..(n - 1), v \in RaceValues,
        L \in 0..(n - 1), R \in 0..(n - 1) :
       /\ L <= R
       /\ a = BuildUpTo(arr, n)
       /\ cur = arr
       /\ upd = [idx |-> idx, val |-> v, tree |-> BuildUpTo(arr, n), arr |-> arr]
       /\ bp = [stack |-> <<BFrame(0, 0, n - 1, idx, v)>>, done |-> FALSE, ok |-> TRUE,
                ret |-> 0]
       /\ qp = [stack |-> <<QFrame(0, 0, n - 1, L, R)>>, done |-> FALSE, ok |-> TRUE,
                ret |-> 0, L |-> L, R |-> R]

BuildStep ==
  /\ pc = "race"
  /\ ~bp.done
  /\ LET st == BStep(Here)
     IN a' = st.a /\ cur' = st.cur /\ bp' = st.bp
  /\ UNCHANGED <<n, i, pc, upd, last, todo, qp>>

QueryStep ==
  /\ pc = "race"
  /\ ~qp.done
  /\ qp' = QStep(Here).qp
  /\ UNCHANGED <<n, a, cur, i, pc, upd, last, todo, bp>>

NextRace == BuildStep \/ QueryStep

SpecRace == InitRace /\ [][NextRace]_vars

\* ---- reference notions used by the properties ----
\* max{f[k] : L <= k <= R}
MaxOf(f, L, R) == CHOOSE m \in {f[k] : k \in L..R} : \A k \in L..R : f[k] <= m

\* the node triples <<slot, l, r>> of the tree over [l, r] rooted at slot p:
\* [l, r] with l < r splits at mid = l + (r - l) / 2 into [l, mid] at 2p+1
\* and [mid+1, r] at 2p+2
RECURSIVE TreeNodes(_, _, _)
TreeNodes(p, l, r) ==
  IF l >= r THEN {<<p, l, r>>}
  ELSE LET mid == l + ((r - l) \div 2)
       IN {<<p, l, r>>} \cup TreeNodes(2 * p + 1, l, mid) \cup TreeNodes(2 * p + 2, mid + 1, r)

RootNodes == TreeNodes(0, 0, n - 1)
\* slots of the nodes whose interval contains position k: the root-to-leaf path
PathSlots(k) == {t[1] : t \in {u \in RootNodes : u[2] <= k /\ k <= u[3]}}

IsQuery == last.op = "query"
IsBuild == last.op = "build"
ValidRange == 0 <= last.x /\ last.x <= last.y /\ last.y <= n - 1
\* the tree queried is the in-order build, resp. that build plus one update
Fresh == upd = NoUpd
Updated == upd # NoUpd

\* C1: after the in-order build from the zeroed array, range_max at the root
\* returns exactly max(a[L..R]) for every 0 <= L <= R <= n-1.
C1_ArbitraryRangeExact ==
  (IsQuery /\ Fresh /\ ValidRange)
    => (last.ok /\ last.ret = MaxOf(cur, last.x, last.y))

\* C2: after the in-order build from the zeroed array, the full-range query
\* range_max(root, 0, n-1) returns max(a), for values of either sign.
C2_GlobalMax ==
  (IsQuery /\ Fresh /\ last.x = 0 /\ last.y = n - 1)
    => (last.ok /\ last.ret = MaxOf(cur, 0, n - 1))

C2_Witness ==
  /\ IsQuery /\ Fresh /\ last.x = 0 /\ last.y = n - 1
  /\ n = MaxN
  /\ \A k \in 0..(n - 1) : cur[k] < 0
  /\ last.ok /\ last.ret = 0 - 1

\* C3: every range_max call at the root with 0 <= query_l <= query_r <= n-1
\* terminates and visits only nodes of the tree (never below a leaf).
C3_QueryTerminates ==
  (IsQuery /\ ValidRange) => (last.ok /\ last.nodes \subseteq RootNodes)

\* C4: after any sequence of build calls at the root from the zeroed array,
\* every leaf of the tree stores the value last written for its position
\* (0 if never written) and every internal node stores the max of its children.
C4_NodeInvariant ==
  \A t \in RootNodes :
    IF t[2] = t[3]
    THEN a[t[1]] = cur[t[2]]
    ELSE LET x == a[2 * t[1] + 1]
             y == a[2 * t[1] + 2]
         IN a[t[1]] \in {x, y} /\ a[t[1]] >= x /\ a[t[1]] >= y

\* positions 2 then 0 written out of order, position 1 never written
C4_Witness ==
  /\ pc = "free" /\ n = 3 /\ IsBuild /\ last.x = 0
  /\ cur = [k \in 0..2 |-> IF k = 0 THEN 0 - 1 ELSE IF k = 2 THEN 1 ELSE 0]
  /\ a[0] = 1 /\ a[1] = 0 /\ a[3] = 0 - 1 /\ a[4] = 0

\* C5: after a full in-order build, build(root, idx, newval) with idx in
\* 0..n-1 makes every later range_max(root, L, R) with L <= idx <= R return the
\* max of a[L..R] with a[idx] replaced by newval.
C5_UpdatePropagates ==
  (IsQuery /\ Updated /\ ValidRange /\ last.x <= upd.idx /\ upd.idx <= last.y)
    => (last.ok
        /\ last.ret = MaxOf([upd.arr EXCEPT ![upd.idx] = upd.val], last.x, last.y))

C7_BuildWritesPathOnly ==
  [][(last'.op = "build" /\ last'.x \in 0..(n - 1))
       => LET path == PathSlots(last'.x)
          IN /\ last'.ok
             /\ last'.writes \subseteq path
             /\ \A s \in (DOMAIN a) \ path : a'[s] = a[s]]_vars

\* position 1 of three rewritten: slots 0, 1, 4 written, the leaves at slots
\* 2 and 3 keep their values
C7_Witness ==
  /\ pc = "free" /\ IsBuild /\ n = 3 /\ last.x = 1 /\ last.y = 1
  /\ last.writes = {0, 1, 4}
  /\ a[4] = 1 /\ a[2] = 0 - 1 /\ a[3] = 1 /\ a[1] = 1 /\ a[0] = 1

\* C8: a build call at the root whose target index is outside 0..n-1 writes
\* no slot and returns normally: the backing array is the same before and
\* after the call.
C8_BuildOutOfRangeNoOp ==
  [][(last'.op = "build" /\ last'.x \notin 0..(n - 1))
       => (last'.ok /\ last'.writes = {} /\ a' = a)]_vars

C8_Witness ==
  /\ pc = "free" /\ IsBuild /\ last.x = n /\ last.y = 1 /\ n >= 2
  /\ \A k \in 0..(n - 1) : cur[k] = 0 - 1
  /\ last.ok /\ last.writes = {} /\ a[0] = 0 - 1

\* C9: a range_max call at the root whose range lies entirely outside
\* 0..n-1 (to the right or to the left) returns 0 at once: no slot is read
\* and there is no recursion.
C9_OutsideQueryAbsorbed ==
  (IsQuery /\ last.x <= last.y /\ (last.x > n - 1 \/ last.y < 0))
    => (last.ok /\ last.ret = 0 /\ last.reads = {} /\ last.nodes = {<<0, 0, n - 1>>})

\* C10: after the in-order build, range_max(root, i, i) returns a[i] for
\* every i in 0..n-1.
C10_SingleElementQuery ==
  (IsQuery /\ Fresh /\ last.x = last.y /\ last.x \in 0..(n - 1))
    => (last.ok /\ last.ret = cur[last.x])

\* the activations of the latest call made on the children of activation c
ChildCalls(c) == {k \in last.calls : k.p \in {2 * c.p + 1, 2 * c.p + 2}}

\* C12: at every node visited by range_max, the no-overlap case is taken
\* whenever query_l > r or query_r < l: the activation returns 0, reads no
\* slot and recurses into neither child.
C12_NoOverlapBothSides ==
  IsQuery =>
    \A c \in last.calls :
      (c.kind # "overflow" /\ (last.x > c.r \/ last.y < c.l))
        => (c.kind = "exit_default" /\ c.ok /\ c.ret = 0 /\ ChildCalls(c) = {})

C14_BuildTerminates ==
  IsBuild =>
    /\ last.ok
    /\ \A t \in last.nodes :
         LET kids == {u \in last.nodes : u[1] \in {2 * t[1] + 1, 2 * t[1] + 2}}
         IN /\ t[2] <= t[3]
            /\ kids # {} => (t[2] < t[3] /\ t[2] <= last.x /\ last.x <= t[3])
            /\ \A u \in kids : u[2] <= u[3] /\ u[3] - u[2] < t[3] - t[2]
            /\ (t[2] = t[3] \/ last.x < t[2] \/ last.x > t[3]) => kids = {}

C14_Witness ==
  /\ pc = "free" /\ IsBuild /\ n = 3 /\ last.x = 1 /\ last.ok
  /\ last.nodes = {<<0, 0, 2>>, <<1, 0, 1>>, <<2, 2, 2>>, <<3, 0, 0>>, <<4, 1, 1>>}

\* the node triples build visits for the n of the state, over all targets
BuildNodes == UNION {build(a, 0, 0, n - 1, k, 0, 0).nodes : k \in 0..(n - 1)}

\* C15: every node triple (slot, l, r) with l <= r that range_max visits from
\* the root is a triple that build derives for the same n.
C15_SameAddressing ==
  IsQuery => \A t \in last.nodes : t[2] <= t[3] => t \in BuildNodes

\* C16: every slot read or written by a build call at the root with a target
\* in 0..n-1, and by the full-range query range_max(root, 0, n-1), is in
\* 0..5n-1, inside the block the driver allocates.
C16_SlotsInsideBlock ==
  (IsBuild \/ (IsQuery /\ last.x = 0 /\ last.y = n - 1))
    => /\ (last.reads \cup last.writes) \subseteq 0..(5 * n - 1)
       /\ (last.reads \cup last.writes) \subseteq DOMAIN a

\* the last of eight positions: the deepest, rightmost leaf is slot 14
C16_Witness ==
  /\ pc = "wide" /\ IsBuild /\ n = 8 /\ last.x = 7
  /\ last.writes = {0, 2, 6, 14}
  /\ last.reads = {1, 2, 5, 6, 13, 14}

\* C17: for words l <= r, left_until (wrapping r - l, logical shift right by
\* one, wrapping add of l) yields exactly l + floor((r - l) / 2) of unbounded
\* arithmetic, a value in l..r; right_from is that value plus one (the add is
\* the machine's: for l < r it does not wrap and stays within l+1..r).
C17_SplitOverflowSafe ==
  LET mid == last.x + ((last.y - last.x) \div 2)
  IN /\ last.op = "left_until"
          => (last.ret = mid /\ last.x <= last.ret /\ last.ret <= last.y)
     /\ last.op = "right_from"
          => /\ last.ret = (IF mid = MaxInt THEN MinInt ELSE mid + 1)
             /\ last.x < last.y => (last.x < last.ret /\ last.ret <= last.y)

\* the widest interval: r - l does not fit the signed word
C17_Witness ==
  /\ pc = "arith" /\ last.op = "left_until"
  /\ last.x = MinInt /\ last.y = MaxInt /\ last.ret = 0 - 1

\* C19: starting from the zeroed array, one build call per position 0..n-1 in
\* any order leaves the same array, slot for slot, as the build loop in
\* increasing order.
C19_OrderIndependent ==
  (pc = "perm" /\ todo = {}) => a = BuildUpTo(upd.arr, n)

\* position 0 built last, positions 1 and 2 before it
C19_Witness ==
  /\ pc = "perm" /\ todo = {} /\ n = 3 /\ IsBuild /\ last.x = 0
  /\ upd.arr = [k \in 0..2 |-> IF k = 0 THEN 1 ELSE IF k = 1 THEN 0 - 1 ELSE 0]
  /\ a[0] = 1 /\ a[1] = 1 /\ a[2] = 0 /\ a[3] = 1 /\ a[4] = 0 - 1

\* C20: on an array whose values are all >= 0, after the in-order build, the
\* suffix query range_max(root, L, n-1) returns, and returns max(a[L..n-1]),
\* for every 0 <= L <= n-1.
C20_SuffixNonNegative ==
  (IsQuery /\ Fresh /\ ValidRange /\ last.y = n - 1
     /\ \A k \in 0..(n - 1) : cur[k] >= 0)
    => (last.ok /\ last.ret = MaxOf(cur, last.x, n - 1))

\* the greatest value lies left of the suffix; a pruned node contributes 0
C20_Witness ==
  /\ IsQuery /\ Fresh /\ n = 3 /\ last.x = 1 /\ last.y = 2
  /\ cur = [k \in 0..2 |-> IF k = 0 THEN 1 ELSE 0]
  /\ last.ok /\ last.ret = 0
  /\ \E c \in last.calls : c.kind = "exit_default"

\* the answers of the query in progress on the tree as it was before the
\* build in progress, and on the tree that build leaves when run alone
RaceBuilt == build(upd.tree, 0, 0, n - 1, upd.idx, upd.val, 0).a
RaceBefore == range_maximum(upd.tree, 0, 0, n - 1, qp.L, qp.R, 0)
RaceAfter == range_maximum(RaceBuilt, 0, 0, n - 1, qp.L, qp.R, 0)
\* neither call has taken a step
RaceStart ==
  /\ pc = "race" /\ a = upd.tree
  /\ bp.stack = <<BFrame(0, 0, n - 1, upd.idx, upd.val)>>
  /\ qp.stack = <<QFrame(0, 0, n - 1, qp.L, qp.R)>>
\* the finished queries reachable from st by steps of the two calls
RECURSIVE Outcomes(_)
Outcomes(st) ==
  IF st.qp.done THEN {st.qp}
  ELSE (IF st.bp.done THEN {} ELSE Outcomes(BStep(st))) \cup Outcomes(QStep(st))

\* C18 (as stated): when a build call and a range_max call are interleaved at
\* the granularity of single slot reads and writes, there is an interleaving
\* in which range_max returns a value that is neither its answer on the tree
\* before the build nor its answer on the tree after it.  Stated for the pairs
\* where tearing could show: the query returns, reads at least two slots, and
\* the build changes its answer.
C18_TornInterleaving ==
  (RaceStart /\ RaceBefore.ok /\ RaceBefore.ret # RaceAfter.ret
     /\ Cardinality(RaceBefore.reads) >= 2)
    => \E o \in Outcomes(Here) : o.ok /\ o.ret \notin {RaceBefore.ret, RaceAfter.ret}

\* C18 (amended): in every interleaving of one build call with one range_max
\* call, a range_max that returns returns its answer on the tree before the
\* build or its answer on the tree after it; the build leaves the tree it
\* leaves when run alone.
C18_NoTornResult ==
  pc = "race" =>
    /\ (qp.done /\ qp.ok) => qp.ret \in {RaceBefore.ret, RaceAfter.ret}
    /\ bp.done => (bp.ok /\ a = RaceBuilt)

\* the query has returned the new answer while the build is still under way:
\* it read two slots, one of them already rewritten
C18_Witness ==
  /\ pc = "race" /\ n = 3 /\ qp.done /\ qp.ok /\ ~bp.done
  /\ qp.L = 1 /\ qp.R = 2 /\ upd.idx = 1
  /\ RaceBefore.reads = {2, 4}
  /\ a # upd.tree /\ a # RaceBuilt
  /\ RaceBefore.ret = 1 /\ RaceAfter.ret = 2 /\ qp.ret = 2

\* C21: whenever range_max(root, L, R) with 0 <= L <= R <= n-1 returns on a
\* fully built tree (values of either sign, freshly built or updated), its
\* result is never below max(a[L..R]): it is max(a[L..R]) or the sentinel 0,
\* and it is 0 only if max(a[L..R]) <= 0.
C21_NeverBelowMax ==
  (IsQuery /\ ValidRange /\ last.ok)
    => LET m == MaxOf(cur, last.x, last.y)
       IN /\ last.ret >= m
          /\ last.ret \in {m, 0}
          /\ (last.ret = 0 => m <= 0)

\* every value of the range is negative and a pruned node contributes the
\* sentinel: the query returns 0, strictly above the true maximum
C21_Witness ==
  /\ IsQuery /\ ValidRange /\ last.ok /\ n = 3 /\ last.x = 1 /\ last.y = 2
  /\ \A k \in 0..(n - 1) : cur[k] < 0
  /\ \E c \in last.calls : c.kind = "exit_default"
  /\ last.ret = 0 /\ MaxOf(cur, last.x, last.y) = 0 - 1

====
